---- MODULE Spec2Model ----
(***************************************************************************)
(* The naming analyzer of aiready-consistency (src/src/analyzers/naming.ts) *)
(* as a state machine.  A string is a sequence of one-character strings,   *)
(* so that every regular expression of the analyzer is matched character   *)
(* by character, the way the JavaScript engine matches it.                 *)
(***************************************************************************)
EXTENDS Integers, Sequences, FiniteSets, TLC

VARIABLES
    \* analyzeNaming(files)
    files,       \* the argument: a sequence of paths
    pc,          \* "loop" | "done" (promise resolved) | "rejected" (promise rejected)
    fileIdx,     \* number of files of the for-of loop already taken
    issues,      \* the accumulator `issues`
    reads,       \* history: what the Content Provider answered, per call
    result,      \* the value the promise resolved with
    \* analyzeFileNaming(file, content), one forEach callback per step
    file, content, lines, index, fileIssues, fpc,
    \* detectNamingConventions(files, allIssues)
    dFiles, dIssues, dResult, dAgain, dpc,
    \* the two module-level Set objects of naming.ts 5-67
    whitelists

vars == <<files, pc, fileIdx, issues, reads, result,
          file, content, lines, index, fileIssues, fpc,
          dFiles, dIssues, dResult, dAgain, dpc, whitelists>>

namingVars == <<files, pc, fileIdx, issues, reads, result>>
fileVars   == <<file, content, lines, index, fileIssues, fpc>>
detectVars == <<dFiles, dIssues, dResult, dAgain, dpc>>
configVars == <<whitelists>>

----------------------------------------------------------------------------
(* Characters and strings *)

Range(s) == { s[i] : i \in 1..Len(s) }

Lowers == << "a","b","c","d","e","f","g","h","i","j","k","l","m",
             "n","o","p","q","r","s","t","u","v","w","x","y","z" >>
Uppers == << "A","B","C","D","E","F","G","H","I","J","K","L","M",
             "N","O","P","Q","R","S","T","U","V","W","X","Y","Z" >>
Digits == << "0","1","2","3","4","5","6","7","8","9" >>

Lower == Range(Lowers)
Upper == Range(Uppers)
Digit == Range(Digits)

\* \w and \s of the regular expressions; "\n" never occurs inside a line
WordChar == Lower \cup Upper \cup Digit \cup {"_"}
Space    == {" ", "\t", "\r", "\n"}

\* The characters the model uses, in UTF-16 code unit order (the order of
\* JavaScript's string comparison)
CodeOrder == << "\t", "\n", "\r", " ", "'", "(", ")", ",", ".", "/" >> \o Digits
             \o << ":", ";", "=", ">" >> \o Uppers \o << "_" >> \o Lowers
             \o << "{", "}" >>

CodeOf(c) == CHOOSE i \in 1..Len(CodeOrder) : CodeOrder[i] = c

\* String.prototype.toLowerCase / toUpperCase, on one character
LowerOf(c) == IF c \in Upper THEN Lowers[CHOOSE i \in 1..26 : Uppers[i] = c] ELSE c
UpperOf(c) == IF c \in Lower THEN Uppers[CHOOSE i \in 1..26 : Lowers[i] = c] ELSE c

toLowerCase(s) == [i \in 1..Len(s) |-> LowerOf(s[i])]

\* the character at position p, "" outside the string
At(s, p) == IF p \in 1..Len(s) THEN s[p] ELSE ""

\* w occurs in s at position p
StartsAt(s, p, w) ==
    /\ p >= 1
    /\ p + Len(w) - 1 <= Len(s)
    /\ \A i \in 1..Len(w) : s[p + i - 1] = w[i]

\* the same under the i flag (w is lower case)
StartsAtI(s, p, w) ==
    /\ p >= 1
    /\ p + Len(w) - 1 <= Len(s)
    /\ \A i \in 1..Len(w) : LowerOf(s[p + i - 1]) = w[i]

EndsWith(s, w) == Len(w) <= Len(s) /\ StartsAt(s, Len(s) - Len(w) + 1, w)

\* String.prototype.includes
includes(s, w) == \E p \in 1..(Len(s) + 1) : StartsAt(s, p, w)

\* the first position q >= p whose character is not in class C: where a
\* greedy C* that starts at p ends
RunEnd(s, p, C) ==
    IF p > Len(s) \/ p < 1 THEN p ELSE
    CHOOSE q \in p..(Len(s) + 1) :
        /\ At(s, q) \notin C
        /\ \A r \in p..(q - 1) : s[r] \in C

\* \b at position p: exactly one of the characters around it is a word character
WordBoundary(s, p) == (At(s, p - 1) \in WordChar) # (At(s, p) \in WordChar)

----------------------------------------------------------------------------
(* naming.ts 5-67: the two whitelists *)

COMMON_SHORT_WORDS ==
    { <<"d","a","y">>, <<"k","e","y">>, <<"n","e","t">>, <<"t","o">>, <<"g","o">>,
      <<"f","o","r">>, <<"n","o","t">>, <<"n","e","w">>, <<"o","l","d">>, <<"t","o","p">>,
      <<"e","n","d">>, <<"r","u","n">>, <<"t","r","y">>, <<"u","s","e">>, <<"g","e","t">>,
      <<"s","e","t">>, <<"a","d","d">>, <<"p","u","t">>, <<"m","a","p">>, <<"l","o","g">>,
      <<"r","o","w">>, <<"c","o","l">>, <<"t","a","b">>, <<"b","o","x">>, <<"d","i","v">>,
      <<"n","a","v">>, <<"t","a","g">>, <<"a","n","y">>, <<"a","l","l">>, <<"o","n","e">>,
      <<"t","w","o">>, <<"o","u","t">>, <<"o","f","f">>, <<"o","n">>, <<"y","e","s">>,
      <<"n","o">>, <<"n","o","w">>, <<"m","a","x">>, <<"m","i","n">>, <<"s","u","m">>,
      <<"a","v","g">>, <<"r","e","f">>, <<"s","r","c">>, <<"d","s","t">>, <<"r","a","w">>,
      <<"d","e","f">>, <<"s","u","b">>, <<"p","u","b">>, <<"p","r","e">>, <<"m","i","d">>,
      <<"a","l","t">>, <<"o","p","t">>, <<"t","m","p">>, <<"e","x","t">>, <<"s","e","p">>,
      <<"t","a","x">>, <<"c","a","t">>, <<"d","o","g">>, <<"c","a","r">>, <<"b","u","s">>,
      <<"w","e","b">>, <<"a","p","p">>, <<"w","a","r">>, <<"l","a","w">>, <<"p","a","y">>,
      <<"b","u","y">>, <<"w","i","n">>, <<"c","u","t">>, <<"h","i","t">>, <<"h","o","t">>,
      <<"p","o","p">>, <<"j","o","b">>, <<"a","g","e">>, <<"a","c","t">>, <<"l","e","t">>,
      <<"l","o","t">>, <<"b","a","d">>, <<"b","i","g">>, <<"f","a","r">>, <<"f","e","w">>,
      <<"o","w","n">>, <<"p","e","r">>, <<"r","e","d">>, <<"l","o","w">>, <<"s","e","e">>,
      <<"s","i","x">>, <<"t","e","n">>, <<"w","a","y">>, <<"w","h","o">>, <<"w","h","y">>,
      <<"y","e","t">>, <<"v","i","a">>, <<"d","u","e">>, <<"f","e","e">>, <<"f","u","n">>,
      <<"g","a","s">>, <<"g","a","y">>, <<"g","o","d">>, <<"g","u","n">>, <<"g","u","y">>,
      <<"i","c","e">>, <<"i","l","l">>, <<"k","i","d">>, <<"m","a","d">>, <<"m","a","n">>,
      <<"m","i","x">>, <<"m","o","m">>, <<"m","r","s">>, <<"n","o","r">>, <<"o","d","d">>,
      <<"o","i","l">>, <<"p","a","n">>, <<"p","e","t">>, <<"p","i","t">>, <<"p","o","t">>,
      <<"p","o","w">>, <<"p","r","o">>, <<"r","e","p">>, <<"r","i","d">>, <<"s","a","d">>,
      <<"s","e","a">>, <<"s","i","t">>, <<"s","k","y">>, <<"s","o","n">>, <<"t","e","a">>,
      <<"t","i","e">>, <<"t","i","p">>, <<"v","a","n">>, <<"w","o","n">> }

ACCEPTABLE_ABBREVIATIONS ==
    { <<"i","d">>, <<"u","i","d">>, <<"g","i","d">>, <<"p","i","d">>, <<"i">>, <<"j">>,
      <<"k">>, <<"n">>, <<"m">>, <<"u","r","l">>, <<"u","r","i">>, <<"a","p","i">>,
      <<"c","d","n">>, <<"d","n","s">>, <<"i","p">>, <<"t","c","p">>, <<"u","d","p">>,
      <<"h","t","t","p">>, <<"s","s","l">>, <<"t","l","s">>, <<"u","t","m">>, <<"s","e","o">>,
      <<"r","s","s">>, <<"x","h","r">>, <<"a","j","a","x">>, <<"c","o","r","s">>, <<"w","s">>,
      <<"w","s","s">>, <<"j","s","o","n">>, <<"x","m","l">>, <<"y","a","m","l">>,
      <<"c","s","v">>, <<"h","t","m","l">>, <<"c","s","s">>, <<"s","v","g">>, <<"p","d","f">>,
      <<"i","m","g">>, <<"t","x","t">>, <<"d","o","c">>, <<"d","o","c","x">>,
      <<"x","l","s","x">>, <<"p","p","t">>, <<"m","d">>, <<"r","s","t">>, <<"j","p","g">>,
      <<"p","n","g">>, <<"g","i","f">>, <<"d","b">>, <<"s","q","l">>, <<"o","r","m">>,
      <<"d","a","o">>, <<"d","t","o">>, <<"d","d","b">>, <<"r","d","s">>,
      <<"n","o","s","q","l">>, <<"f","s">>, <<"d","i","r">>, <<"t","m","p">>, <<"s","r","c">>,
      <<"d","s","t">>, <<"b","i","n">>, <<"l","i","b">>, <<"p","k","g">>, <<"o","s">>,
      <<"e","n","v">>, <<"a","r","g">>, <<"c","l","i">>, <<"c","m","d">>, <<"e","x","e">>,
      <<"c","w","d">>, <<"p","w","d">>, <<"u","i">>, <<"u","x">>, <<"g","u","i">>,
      <<"d","o","m">>, <<"r","e","f">>, <<"r","e","q">>, <<"r","e","s">>, <<"c","t","x">>,
      <<"e","r","r">>, <<"m","s","g">>, <<"a","u","t","h">>, <<"m","a","x">>, <<"m","i","n">>,
      <<"a","v","g">>, <<"s","u","m">>, <<"a","b","s">>, <<"c","o","s">>, <<"s","i","n">>,
      <<"t","a","n">>, <<"l","o","g">>, <<"e","x","p">>, <<"p","o","w">>, <<"s","q","r","t">>,
      <<"s","t","d">>, <<"v","a","r">>, <<"i","n","t">>, <<"n","u","m">>, <<"i","d","x">>,
      <<"n","o","w">>, <<"u","t","c">>, <<"t","z">>, <<"m","s">>, <<"s","e","c">>, <<"h","r">>,
      <<"y","r">>, <<"m","o">>, <<"a","p","p">>, <<"c","f","g">>, <<"c","o","n","f","i","g">>,
      <<"i","n","i","t">>, <<"l","e","n">>, <<"v","a","l">>, <<"s","t","r">>, <<"o","b","j">>,
      <<"a","r","r">>, <<"g","e","n">>, <<"d","e","f">>, <<"r","a","w">>, <<"n","e","w">>,
      <<"o","l","d">>, <<"p","r","e">>, <<"p","o","s","t">>, <<"s","u","b">>, <<"p","u","b">>,
      <<"t","s">>, <<"j","s">>, <<"j","s","x">>, <<"t","s","x">>, <<"p","y">>, <<"r","b">>,
      <<"v","u","e">>, <<"r","e">>, <<"f","n">>, <<"f","n","s">>, <<"m","o","d">>,
      <<"o","p","t","s">>, <<"d","e","v">>, <<"s","3">>, <<"e","c","2">>, <<"s","q","s">>,
      <<"s","n","s">>, <<"v","p","c">>, <<"a","m","i">>, <<"i","a","m">>, <<"a","c","l">>,
      <<"e","l","b">>, <<"a","l","b">>, <<"n","l","b">>, <<"a","w","s">>, <<"f","c","p">>,
      <<"l","c","p">>, <<"c","l","s">>, <<"t","t","f","b">>, <<"t","t","i">>, <<"f","i","d">>,
      <<"f","p","s">>, <<"q","p","s">>, <<"r","p","s">>, <<"t","p","s">>, <<"p","o">>,
      <<"e","2","e">>, <<"a","1","1","y">>, <<"i","1","8","n">>, <<"l","1","0","n">>,
      <<"s","k">>, <<"f","y">>, <<"f","a","q">>, <<"o","g">>, <<"c","t","a">>, <<"r","o","i">>,
      <<"k","p","i">>, <<"i","s">>, <<"h","a","s">>, <<"c","a","n">>, <<"d","i","d">>,
      <<"w","a","s">>, <<"a","r","e">>, <<"d">>, <<"t">>, <<"d","t">> }

----------------------------------------------------------------------------
(* The regular expressions that find declarations.  A match is the position *)
(* after its last character and its capture group; end = 0 is no match.     *)

NoMatch == [end |-> 0, cap |-> << >>]

DeclKeywords == { <<"c","o","n","s","t">>, <<"l","e","t">>, <<"v","a","r">> }

\* \b(?:const|let|var) at p: the position after the keyword, 0 if none.
\* ci is the i flag.
KeywordEnd(s, p, ci) ==
    LET ks == { k \in DeclKeywords : IF ci THEN StartsAtI(s, p, k) ELSE StartsAt(s, p, k) }
    IN  IF WordBoundary(s, p) /\ ks # {}
        THEN p + Len(CHOOSE k \in ks : TRUE)
        ELSE 0

\* [a-hm-z]
SingleLetterClass == Lower \ {"i", "j", "k", "l"}

\* /\b(?:const|let|var)\s+([a-hm-z])\s*=/gi at p
SingleLetterAt(s, p) ==
    LET k == KeywordEnd(s, p, TRUE)
        q == RunEnd(s, k, Space)
        e == RunEnd(s, q + 1, Space)
    IN  IF /\ k # 0
           /\ q > k
           /\ LowerOf(At(s, q)) \in SingleLetterClass
           /\ At(s, e) = "="
        THEN [end |-> e + 1, cap |-> << s[q] >>]
        ELSE NoMatch

\* the lookahead left out of the regex
NoLookahead(s, r) == TRUE

\* (?=[A-Z]|_|\s*=) at r
AbbreviationLookahead(s, r) ==
    \/ At(s, r) \in Upper
    \/ At(s, r) = "_"
    \/ At(s, RunEnd(s, r, Space)) = "="

\* /\b(?:const|let|var)\s+([a-z]{1,3})(?=[A-Z]|_|\s*=)/g at p: the greedy
\* {1,3} takes the longest run the lookahead accepts
AbbreviationAt(s, p) ==
    LET k  == KeywordEnd(s, p, FALSE)
        q  == RunEnd(s, k, Space)
        ns == { n \in 1..3 : /\ \A i \in 0..(n - 1) : At(s, q + i) \in Lower
                             /\ AbbreviationLookahead(s, q + n) }
        n  == CHOOSE m \in ns : \A o \in ns : o <= m
    IN  IF k # 0 /\ q > k /\ ns # {}
        THEN [end |-> q + n, cap |-> SubSeq(s, q, q + n - 1)]
        ELSE NoMatch

\* /\b(?:const|let|var)\s+([a-z][a-z0-9]*_[a-z0-9_]*)\s*=/ at p
SnakeCaseAt(s, p) ==
    LET k == KeywordEnd(s, p, FALSE)
        q == RunEnd(s, k, Space)
        u == RunEnd(s, q + 1, Lower \cup Digit)
        v == RunEnd(s, u + 1, Lower \cup Digit \cup {"_"})
        e == RunEnd(s, v, Space)
    IN  IF /\ k # 0
           /\ q > k
           /\ At(s, q) \in Lower
           /\ At(s, u) = "_"
           /\ At(s, e) = "="
        THEN [end |-> e + 1, cap |-> SubSeq(s, q, v - 1)]
        ELSE NoMatch

\* /\b(?:const|let|var)\s+([a-z][a-zA-Z0-9]*)\s*:\s*boolean/gi at p
BooleanAt(s, p) ==
    LET k == KeywordEnd(s, p, TRUE)
        q == RunEnd(s, k, Space)
        v == RunEnd(s, q + 1, Lower \cup Upper \cup Digit)
        c == RunEnd(s, v, Space)
        b == RunEnd(s, c + 1, Space)
    IN  IF /\ k # 0
           /\ q > k
           /\ LowerOf(At(s, q)) \in Lower
           /\ At(s, c) = ":"
           /\ StartsAtI(s, b, <<"b","o","o","l","e","a","n">>)
        THEN [end |-> b + 7, cap |-> SubSeq(s, q, v - 1)]
        ELSE NoMatch

\* /function\s+([a-z][a-zA-Z0-9]*)/g at p
FunctionAt(s, p) ==
    LET k == p + 8
        q == RunEnd(s, k, Space)
        v == RunEnd(s, q + 1, Lower \cup Upper \cup Digit)
    IN  IF /\ StartsAt(s, p, <<"f","u","n","c","t","i","o","n">>)
           /\ q > k
           /\ At(s, q) \in Lower
        THEN [end |-> v, cap |-> SubSeq(s, q, v - 1)]
        ELSE NoMatch

MatchAt(rule, s, p) ==
    CASE rule = "singleLetter" -> SingleLetterAt(s, p)
      [] rule = "abbreviation" -> AbbreviationAt(s, p)
      [] rule = "snakeCase"    -> SnakeCaseAt(s, p)
      [] rule = "boolean"      -> BooleanAt(s, p)
      [] rule = "function"     -> FunctionAt(s, p)

\* String.prototype.matchAll with a g regex: the matches from left to right,
\* each search resuming where the previous match ended
RECURSIVE MatchAllFrom(_, _, _)
MatchAllFrom(rule, s, p) ==
    IF p > Len(s)
    THEN << >>
    ELSE LET m == MatchAt(rule, s, p)
         IN  IF m.end = 0
             THEN MatchAllFrom(rule, s, p + 1)
             ELSE << m >> \o MatchAllFrom(rule, s, m.end)

matchAll(rule, s) == MatchAllFrom(rule, s, 1)

\* String.prototype.match with a regex without g: the leftmost match only
match(rule, s) ==
    LET ps == { p \in 1..Len(s) : MatchAt(rule, s, p).end # 0 }
    IN  IF ps = {}
        THEN NoMatch
        ELSE MatchAt(rule, s, CHOOSE p \in ps : \A o \in ps : p <= o)

----------------------------------------------------------------------------
(* naming.ts 88, 186: what the file name says *)

SourceExtensions == { <<"t","s">>, <<"t","s","x">>, <<"j","s">>, <<"j","s","x">> }
TestInfixes      == { <<"t","e","s","t">>, <<"s","p","e","c">> }

\* file.match(/\.(test|spec)\.(ts|tsx|js|jsx)$/)
isTestFile(f) ==
    \E a \in TestInfixes, b \in SourceExtensions :
        EndsWith(f, <<".">> \o a \o <<".">> \o b)

\* file.match(/\.(ts|tsx|js|jsx)$/)
isSourceFile(f) == \E b \in SourceExtensions : EndsWith(f, <<".">> \o b)

----------------------------------------------------------------------------
(* naming.ts 103-118, 153-172: the context predicates, each over one line *)

\* /\(\s*[a-z]\s*(?:,\s*[a-z]\s*)*\)\s*=>/ from the position after a
\* parameter and the spaces behind it
RECURSIVE ParamListTail(_, _)
ParamListTail(s, r) ==
    IF At(s, r) = ")"
    THEN StartsAt(s, RunEnd(s, r + 1, Space), <<"=", ">">>)
    ELSE IF At(s, r) = ","
         THEN LET q == RunEnd(s, r + 1, Space)
              IN  At(s, q) \in Lower /\ ParamListTail(s, RunEnd(s, q + 1, Space))
         ELSE FALSE

ParenParamsArrow(s) ==
    \E p \in 1..Len(s) :
        /\ s[p] = "("
        /\ LET q == RunEnd(s, p + 1, Space)
           IN  At(s, q) \in Lower /\ ParamListTail(s, RunEnd(s, q + 1, Space))

\* /\.(map|filter|forEach|reduce|find|some|every)\s*\(/
CollectionMethods == { <<"m","a","p">>, <<"f","i","l","t","e","r">>, <<"f","o","r","E","a","c","h">>, <<"r","e","d","u","c","e">>, <<"f","i","n","d">>, <<"s","o","m","e">>, <<"e","v","e","r","y">> }

CollectionCall(s) ==
    \E p \in 1..Len(s), m \in CollectionMethods :
        /\ s[p] = "."
        /\ StartsAt(s, p + 1, m)
        /\ At(s, RunEnd(s, p + 1 + Len(m), Space)) = "("

\* a character of class C, then \s*=>
ArrowAfter(s, C) ==
    \E p \in 1..Len(s) :
        s[p] \in C /\ StartsAt(s, RunEnd(s, p + 1, Space), <<"=", ">">>)

isInLoopContext(s) ==
    \/ includes(s, <<"f","o","r">>)
    \/ CollectionCall(s)
    \/ includes(s, <<"=", ">">>)
    \/ ArrowAfter(s, WordChar)                  \* /\w+\s*=>\s*/

isI18nContext(s) ==
    \/ includes(s, <<"u","s","e","T","r","a","n","s","l","a","t","i","o","n">>)
    \/ includes(s, <<"i","1","8","n",".","t">>)
    \/ \E p \in 1..Len(s) :                     \* /\bt\s*\(['"]/
          /\ WordBoundary(s, p)
          /\ s[p] = "t"
          /\ LET q == RunEnd(s, p + 1, Space)
             IN  At(s, q) = "(" /\ At(s, q + 1) \in {"'", "\""}

\* naming.ts 116-118
isArrowFunctionParam(s) == ParenParamsArrow(s) \/ ArrowAfter(s, Lower)

\* the > lost from the regex built for the abbreviation
isAssignedNamed(s, abbrev) ==
    \/ ParenParamsArrow(s)
    \/ \E p \in 1..Len(s) :
          /\ WordBoundary(s, p)
          /\ StartsAt(s, p, abbrev)
          /\ StartsAt(s, RunEnd(s, p + Len(abbrev), Space), <<"=">>)

\* naming.ts 153-155: new RegExp(`\\b${abbrev}\\s*=>`)
isArrowParamNamed(s, abbrev) ==
    \/ ParenParamsArrow(s)
    \/ \E p \in 1..Len(s) :
          /\ WordBoundary(s, p)
          /\ StartsAt(s, p, abbrev)
          /\ StartsAt(s, RunEnd(s, p + Len(abbrev), Space), <<"=", ">">>)

DateTimeWords == { <<"d","a","t","e">>, <<"t","i","m","e">>, <<"d","a","y">>, <<"h","o","u","r">>, <<"m","i","n","u","t","e">>, <<"s","e","c","o","n","d">>, <<"t","i","m","e","s","t","a","m","p">> }
UserWords     == { <<"u","s","e","r">>, <<"a","u","t","h">>, <<"a","c","c","o","u","n","t">> }

\* a regex that is an alternation of words, under the i flag
MentionsAny(s, ws) == \E p \in 1..Len(s), w \in ws : StartsAtI(s, p, w)

isDateTimeContext(s) == MentionsAny(s, DateTimeWords)
isUserContext(s)     == MentionsAny(s, UserWords)

----------------------------------------------------------------------------
(* naming.ts 94-268: the five rules of the forEach callback *)

Issue(f, n, type, identifier, severity, suggestion) ==
    [file |-> f, line |-> n, type |-> type, identifier |-> identifier,
     severity |-> severity, suggestion |-> suggestion]

\* the exempt letters as the README lists them, without n and m
ExemptLettersOfReadme == {"x", "y", "z", "i", "j", "k", "l"}

\* naming.ts 120: the letters the short-identifier rule never reports
ExemptLetters == {"x", "y", "z", "i", "j", "k", "l", "n", "m"}

\* naming.ts 122: the letters it does not report in a test file
TestFileLetters == {"a", "b", "c", "d", "e", "f", "s"}

\* naming.ts 98-135
SingleLetterIssues(f, line, n) ==
    LET reported(m) ==
            LET letter == LowerOf(m.cap[1])
            IN  /\ ~isInLoopContext(line)
                /\ ~isI18nContext(line)
                /\ ~isArrowFunctionParam(line)
                /\ letter \notin ExemptLetters
                /\ ~(isTestFile(f) /\ letter \in TestFileLetters)
        issue(m) ==
            Issue(f, n, "poor-naming", m.cap, "minor",
                  << "Use descriptive variable name instead of single letter '", m.cap, "'" >>)
        kept == SelectSeq(matchAll("singleLetter", line), reported)
    IN  [i \in 1..Len(kept) |-> issue(kept[i])]

\* the look-up in the common-word set left out
OnlyAcceptedAbbreviations(abbrev) == abbrev \in whitelists.accepted

\* naming.ts 143-150: the two whitelist look-ups
IsWhitelisted(abbrev) ==
    abbrev \in whitelists.common \/ abbrev \in whitelists.accepted

\* naming.ts 138-183
AbbreviationIssues(f, line, n) ==
    LET reported(m) ==
            LET abbrev == toLowerCase(m.cap)
            IN  /\ ~IsWhitelisted(abbrev)
                /\ ~isArrowParamNamed(line, abbrev)
                /\ ~(/\ Len(abbrev) <= 2
                     /\ \/ isDateTimeContext(line) /\ abbrev \in {<<"d">>, <<"t">>, <<"d", "t">>}
                        \/ isUserContext(line) /\ abbrev = <<"u">>)
        issue(m) ==
            Issue(f, n, "abbreviation", m.cap, "info",
                  << "Consider using full word instead of abbreviation '", m.cap, "'" >>)
        kept == SelectSeq(matchAll("abbreviation", line), reported)
    IN  [i \in 1..Len(kept) |-> issue(kept[i])]

\* naming.ts 273-275: str.replace(/_([a-z])/g, (_, letter) => letter.toUpperCase())
RECURSIVE CamelFrom(_, _)
CamelFrom(str, p) ==
    IF p > Len(str)
    THEN << >>
    ELSE IF str[p] = "_" /\ At(str, p + 1) \in Lower
         THEN << UpperOf(str[p + 1]) >> \o CamelFrom(str, p + 2)
         ELSE << str[p] >> \o CamelFrom(str, p + 1)

snakeCaseToCamelCase(str) == CamelFrom(str, 1)

\* naming.ts 188, 190: line.match without the g flag
snakeCaseVars(line) == match("snakeCase", line)

\* naming.ts 186-200
ConventionIssues(f, line, n) ==
    LET m == snakeCaseVars(line)
    IN  IF isSourceFile(f) /\ m.end # 0
        THEN << Issue(f, n, "convention-mix", m.cap, "minor",
                      << "Use camelCase '", snakeCaseToCamelCase(m.cap),
                         "' instead of snake_case in TypeScript/JavaScript" >>) >>
        ELSE << >>

BooleanPrefixes == { <<"i","s">>, <<"h","a","s">>, <<"s","h","o","u","l","d">>, <<"c","a","n">>, <<"w","i","l","l">>, <<"d","i","d">> }

\* naming.ts 203-216
BooleanIssues(f, line, n) ==
    LET reported(m) == ~\E w \in BooleanPrefixes : StartsAtI(m.cap, 1, w)
        issue(m) ==
            Issue(f, n, "unclear", m.cap, "info",
                  << "Boolean variable '", m.cap,
                     "' should start with is/has/should/can for clarity" >>)
        kept == SelectSeq(matchAll("boolean", line), reported)
    IN  [i \in 1..Len(kept) |-> issue(kept[i])]

ReservedWords ==
    { <<"f","o","r">>, <<"i","f">>, <<"e","l","s","e">>, <<"w","h","i","l","e">>, <<"d","o">>,
      <<"s","w","i","t","c","h">>, <<"c","a","s","e">>, <<"b","r","e","a","k">>,
      <<"c","o","n","t","i","n","u","e">>, <<"r","e","t","u","r","n">>,
      <<"t","h","r","o","w">>, <<"t","r","y">>, <<"c","a","t","c","h">>,
      <<"f","i","n","a","l","l","y">>, <<"w","i","t","h">>, <<"y","i","e","l","d">>,
      <<"a","w","a","i","t">> }

EntryPoints == { <<"m","a","i","n">>, <<"i","n","i","t">>, <<"s","e","t","u","p">>, <<"b","o","o","t","s","t","r","a","p">> }

FactorySuffixes == { <<"F","a","c","t","o","r","y">>, <<"B","u","i","l","d","e","r">>, <<"C","r","e","a","t","o","r">>, <<"G","e","n","e","r","a","t","o","r">> }

DescriptivePrefixes ==
    { <<"d","e","f","a","u","l","t">>, <<"t","o","t","a","l">>, <<"c","o","u","n","t">>,
      <<"s","u","m">>, <<"a","v","g">>, <<"m","a","x">>, <<"m","i","n">>,
      <<"i","n","i","t","i","a","l">>, <<"c","u","r","r","e","n","t">>,
      <<"p","r","e","v","i","o","u","s">>, <<"n","e","x","t">> }

DescriptiveSuffixes ==
    { <<"C","o","u","n","t">>, <<"T","o","t","a","l">>, <<"S","u","m">>,
      <<"A","v","e","r","a","g","e">>, <<"L","i","s","t">>, <<"M","a","p">>, <<"S","e","t">>,
      <<"C","o","n","f","i","g">>, <<"S","e","t","t","i","n","g","s">>,
      <<"O","p","t","i","o","n","s">>, <<"P","r","o","p","s">> }

\* naming.ts 255: the action-verb vocabulary
ActionVerbs ==
    { <<"g","e","t">>, <<"s","e","t">>, <<"i","s">>, <<"h","a","s">>, <<"c","a","n">>,
      <<"s","h","o","u","l","d">>, <<"c","r","e","a","t","e">>, <<"u","p","d","a","t","e">>,
      <<"d","e","l","e","t","e">>, <<"f","e","t","c","h">>, <<"l","o","a","d">>,
      <<"s","a","v","e">>, <<"p","r","o","c","e","s","s">>, <<"h","a","n","d","l","e">>,
      <<"v","a","l","i","d","a","t","e">>, <<"c","h","e","c","k">>, <<"f","i","n","d">>,
      <<"s","e","a","r","c","h">>, <<"f","i","l","t","e","r">>, <<"m","a","p">>,
      <<"r","e","d","u","c","e">>, <<"m","a","k","e">>, <<"d","o">>, <<"r","u","n">>,
      <<"s","t","a","r","t">>, <<"s","t","o","p">>, <<"b","u","i","l","d">>,
      <<"p","a","r","s","e">>, <<"f","o","r","m","a","t">>, <<"r","e","n","d","e","r">>,
      <<"c","a","l","c","u","l","a","t","e">>, <<"c","o","m","p","u","t","e">>,
      <<"g","e","n","e","r","a","t","e">>, <<"t","r","a","n","s","f","o","r","m">>,
      <<"c","o","n","v","e","r","t">>, <<"n","o","r","m","a","l","i","z","e">>,
      <<"s","a","n","i","t","i","z","e">>, <<"e","n","c","o","d","e">>,
      <<"d","e","c","o","d","e">>, <<"c","o","m","p","r","e","s","s">>,
      <<"e","x","t","r","a","c","t">>, <<"m","e","r","g","e">>, <<"s","p","l","i","t">>,
      <<"j","o","i","n">>, <<"s","o","r","t">>, <<"c","o","m","p","a","r","e">>,
      <<"t","e","s","t">>, <<"v","e","r","i","f","y">>, <<"e","n","s","u","r","e">>,
      <<"a","p","p","l","y">>, <<"e","x","e","c","u","t","e">>, <<"i","n","v","o","k","e">>,
      <<"c","a","l","l">>, <<"e","m","i","t">>, <<"d","i","s","p","a","t","c","h">>,
      <<"t","r","i","g","g","e","r">>, <<"l","i","s","t","e","n">>,
      <<"s","u","b","s","c","r","i","b","e">>, <<"u","n","s","u","b","s","c","r","i","b","e">>,
      <<"a","d","d">>, <<"r","e","m","o","v","e">>, <<"c","l","e","a","r">>,
      <<"r","e","s","e","t">>, <<"t","o","g","g","l","e">>, <<"e","n","a","b","l","e">>,
      <<"d","i","s","a","b","l","e">>, <<"o","p","e","n">>, <<"c","l","o","s","e">>,
      <<"c","o","n","n","e","c","t">>, <<"d","i","s","c","o","n","n","e","c","t">>,
      <<"s","e","n","d">>, <<"r","e","c","e","i","v","e">>, <<"r","e","a","d">>,
      <<"w","r","i","t","e">>, <<"i","m","p","o","r","t">>, <<"e","x","p","o","r","t">>,
      <<"r","e","g","i","s","t","e","r">>, <<"u","n","r","e","g","i","s","t","e","r">>,
      <<"m","o","u","n","t">>, <<"u","n","m","o","u","n","t">> }

\* naming.ts 245: names longer than this are taken as self-documenting
DescriptiveLength == 15

\* naming.ts 253: this many capitals make a compound word
CompoundCapitals == 3

\* the name compared with the verbs instead of matched at its start
isActionVerb(name) == name \in ActionVerbs

\* naming.ts 255: name.match(/^(get|set|...)/)
hasActionVerb(name) == \E v \in ActionVerbs : StartsAt(name, 1, v)

\* naming.ts 248-249
isDescriptivePattern(name) ==
    \/ \E w \in DescriptivePrefixes :
          StartsAt(name, 1, w) /\ At(name, Len(w) + 1) \in WordChar
    \/ \E w \in DescriptiveSuffixes :
          EndsWith(name, w) /\ At(name, Len(name) - Len(w)) \in WordChar

\* naming.ts 219-267
FunctionIssues(f, line, n) ==
    LET reported(m) ==
            LET name == m.cap
                capitalCount == Cardinality({ i \in 1..Len(name) : name[i] \in Upper })
            IN  /\ name \notin ReservedWords
                /\ name \notin EntryPoints
                /\ ~hasActionVerb(name)
                /\ ~\E w \in FactorySuffixes : EndsWith(name, w)
                /\ ~(StartsAt(name, 1, <<"o", "n">>) /\ At(name, 3) \in Upper)
                /\ ~(Len(name) > DescriptiveLength)
                /\ ~isDescriptivePattern(name)
                /\ ~(capitalCount >= CompoundCapitals)
        issue(m) ==
            Issue(f, n, "unclear", m.cap, "info",
                  << "Function '", m.cap,
                     "' should start with an action verb (get, set, create, etc.)" >>)
        kept == SelectSeq(matchAll("function", line), reported)
    IN  [i \in 1..Len(kept) |-> issue(kept[i])]

\* the 0-based index taken as the line number
LineNumberZeroBased(i) == i

\* naming.ts 95
LineNumber(i) == i + 1

\* naming.ts 94-268: one call of the forEach callback, for the line at
\* (0-based) index i
LineIssues(f, line, i) ==
    LET n == LineNumber(i)
    IN  SingleLetterIssues(f, line, n) \o AbbreviationIssues(f, line, n)
        \o ConventionIssues(f, line, n) \o BooleanIssues(f, line, n)
        \o FunctionIssues(f, line, n)

\* naming.ts 91: content.split('\n')
RECURSIVE split(_)
split(s) ==
    IF "\n" \notin Range(s)
    THEN << s >>
    ELSE LET p == CHOOSE q \in 1..Len(s) : s[q] = "\n" /\ \A r \in 1..(q - 1) : s[r] # "\n"
         IN  << SubSeq(s, 1, p - 1) >> \o split(SubSeq(s, p + 1, Len(s)))

\* naming.ts 94: lines.forEach, from index i on
RECURSIVE ForEachFrom(_, _, _)
ForEachFrom(f, ls, i) ==
    IF i >= Len(ls)
    THEN << >>
    ELSE LineIssues(f, ls[i + 1], i) \o ForEachFrom(f, ls, i + 1)

\* the lines visited from the last to the first
RECURSIVE ForEachBackFrom(_, _, _)
ForEachBackFrom(f, ls, i) ==
    IF i >= Len(ls)
    THEN << >>
    ELSE ForEachBackFrom(f, ls, i + 1) \o LineIssues(f, ls[i + 1], i)

analyzeLinesBackwards(f, text) == ForEachBackFrom(f, split(text), 0)

\* naming.ts 84-271
analyzeFileNaming(f, text) == ForEachFrom(f, split(text), 0)

----------------------------------------------------------------------------
(* The inputs the model draws from *)

\* bounds of the model
MaxLines        == 3    \* lines of a text made of SampleLines
MaxFiles        == 3    \* length of the list passed to analyzeNaming
MaxDetectFiles  == 2    \* length of the list passed to detectNamingConventions
MaxDetectIssues == 7    \* length of the issue list passed to it

\* sequences over S of length lo..hi
SeqsOf(S, lo, hi) == UNION { [1..n -> S] : n \in lo..hi }

Paths == { <<"a",".","t","s">>, <<"b",".","t","e","s","t",".","t","s">>, <<"c",".","p","y">> }

Decl(kw, name, tail) == kw \o << " " >> \o name \o tail

\* what follows the declared name
Tails ==
    { \*  = 1;
      <<" ","="," ","1",";">>,
      \* =1
      <<"=","1">>,
      \*  = new Date();
      <<" ","="," ","n","e","w"," ","D","a","t","e","(",")",";">>,
      \*  = user.id;
      <<" ","="," ","u","s","e","r",".","i","d",";">>,
      \*  = (p) => p;
      <<" ","="," ","(","p",")"," ","=",">"," ","p",";">>,
      \*  = t('k');
      <<" ","="," ","t","(","'","k","'",")",";">> }

ExtraNames ==
    { <<"u","s","r">>, <<"u","s","r","N","a","m","e">>, <<"u","s","r","_","n","a","m","e">>,
      <<"u","s","e","r","_","n","a","m","e">>, <<"u","s","e","r","_","1">>,
      <<"a","_","_","b">>, <<"a","b","_">>, <<"u","_","X">>,
      <<"u","s","e","r","N","a","m","e">>, <<"i","d","V","a","l","u","e">>,
      <<"i","d","_","v","a","l","u","e">>, <<"b","t","n">>, <<"d","t","S","t","a","r","t">>,
      <<"u","N","a","m","e">>, <<"s","3","K","e","y">> }

\* a declaration of every whitelisted name
WhitelistLines ==
    { Decl(<<"c","o","n","s","t">>, name, tail) :
        name \in COMMON_SHORT_WORDS \cup ACCEPTABLE_ABBREVIATIONS, tail \in Tails }

\* a declaration of every single letter, under every keyword
LetterLines ==
    { Decl(kw, << c >>, tail) :
        kw \in DeclKeywords \cup { <<"C","O","N","S","T">> },
        c \in Lower \cup Upper, tail \in Tails }

ExtraLines ==
    { Decl(kw, name, tail) : kw \in DeclKeywords, name \in ExtraNames, tail \in Tails }

FunctionNames ==
    { <<"f","o","o">>, <<"m","a","i","n">>, <<"f","o","r">>, <<"o","n","C","l","i","c","k">>,
      <<"o","n">>, <<"u","s","e","r","F","a","c","t","o","r","y">>,
      <<"d","a","y","s","S","i","n","c","e","L","a","s","t","C","o","m","m","i","t">>,
      <<"a","B","i","g","C","o","m","p","o","u","n","d","N","a","m","e">>,
      <<"t","o","t","a","l","P","r","i","c","e">>, <<"t","o","t","a","l">>,
      <<"u","s","e","r","C","o","u","n","t">>, <<"C","o","u","n","t">>,
      <<"c","a","l","c","u","l","a","t","e","T","o","t","a","l","P","r","i","c","e","N","o","w">>,
      <<"u","s","e","r">>, <<"d","a","t","a">>, <<"f","u","n","c","t","i","o","n">>, <<"x">>,
      <<"g","e","t","t","e","r">>, <<"s","e","t","t","i","n","g","s">>,
      <<"i","s","s","u","e">> }

\* a function declaration of every verb of the vocabulary, bare and as the
\* prefix of a name, and of names that begin with none
FunctionLines ==
    { <<"f","u","n","c","t","i","o","n"," ">> \o name \o <<"(",")"," ","{","}">> :
        name \in ActionVerbs \cup { v \o <<"I","t","e","m">> : v \in ActionVerbs }
                 \cup { v \o <<"_","x">> : v \in ActionVerbs } \cup FunctionNames }

\* lines that exercise the context predicates and several matches per line
SpecialLines ==
    { \* for (let a = 0; a < 3; a++) {
      <<"f","o","r"," ","(","l","e","t"," ","a"," ","="," ","0",";"," ","a"," ","<"," ","3",";"," ","a","+","+",")"," ","{">>,
      \* const b = xs.filter(c => c);
      <<"c","o","n","s","t"," ","b"," ","="," ","x","s",".","f","i","l","t","e","r","(","c"," ","=",">"," ","c",")",";">>,
      \* let active: boolean = true;
      <<"l","e","t"," ","a","c","t","i","v","e",":"," ","b","o","o","l","e","a","n"," ","="," ","t","r","u","e",";">>,
      \* let isActive: boolean = true;
      <<"l","e","t"," ","i","s","A","c","t","i","v","e",":"," ","b","o","o","l","e","a","n"," ","="," ","t","r","u","e",";">>,
      \* const Ready : Boolean
      <<"c","o","n","s","t"," ","R","e","a","d","y"," ",":"," ","B","o","o","l","e","a","n">>,
      \* const user_name = 1; const order_id = 2;
      <<"c","o","n","s","t"," ","u","s","e","r","_","n","a","m","e"," ","="," ","1",";"," ","c","o","n","s","t"," ","o","r","d","e","r","_","i","d"," ","="," ","2",";">>,
      \* const a = 1; let b = 2
      <<"c","o","n","s","t"," ","a"," ","="," ","1",";"," ","l","e","t"," ","b"," ","="," ","2">>,
      \* export function function foo() {}
      <<"e","x","p","o","r","t"," ","f","u","n","c","t","i","o","n"," ","f","u","n","c","t","i","o","n"," ","f","o","o","(",")"," ","{","}">>,
      \* function foo() {} function getBar() {} function baz() {}
      <<"f","u","n","c","t","i","o","n"," ","f","o","o","(",")"," ","{","}"," ","f","u","n","c","t","i","o","n"," ","g","e","t","B","a","r","(",")"," ","{","}"," ","f","u","n","c","t","i","o","n"," ","b","a","z","(",")"," ","{","}">>,
      \* const  e\t= useTranslation();
      <<"c","o","n","s","t"," "," ","e","\t","="," ","u","s","e","T","r","a","n","s","l","a","t","i","o","n","(",")",";">>,
      \* const usr = 1, const u = account
      <<"c","o","n","s","t"," ","u","s","r"," ","="," ","1",","," ","c","o","n","s","t"," ","u"," ","="," ","a","c","c","o","u","n","t">>,
      \* const d = 1; var t = 2; // time
      <<"c","o","n","s","t"," ","d"," ","="," ","1",";"," ","v","a","r"," ","t"," ","="," ","2",";"," ","/","/"," ","t","i","m","e">>,
      \* const s = (a, b) => a
      <<"c","o","n","s","t"," ","s"," ","="," ","(","a",","," ","b",")"," ","=",">"," ","a">>,
      \* const fn = u => u
      <<"c","o","n","s","t"," ","f","n"," ","="," ","u"," ","=",">"," ","u">>,
      \* constant a = 1
      <<"c","o","n","s","t","a","n","t"," ","a"," ","="," ","1">>,
      \* let let = 1
      <<"l","e","t"," ","l","e","t"," ","="," ","1">>,
      \* const let usr = 1
      <<"c","o","n","s","t"," ","l","e","t"," ","u","s","r"," ","="," ","1">>,
      \* \tvar\tq\t=\t1\r
      <<"\t","v","a","r","\t","q","\t","=","\t","1","\r">> }

SingleLines == WhitelistLines \cup LetterLines \cup ExtraLines \cup FunctionLines \cup SpecialLines

\* the lines of the texts of several lines
SampleLines ==
    { \* (the empty line)
      << >>,
      \* const a = 1;
      <<"c","o","n","s","t"," ","a"," ","="," ","1",";">>,
      \* const user_name = 1; let x_y = 2;
      <<"c","o","n","s","t"," ","u","s","e","r","_","n","a","m","e"," ","="," ","1",";"," ","l","e","t"," ","x","_","y"," ","="," ","2",";">>,
      \* function foo() {}
      <<"f","u","n","c","t","i","o","n"," ","f","o","o","(",")"," ","{","}">>,
      \* const usr = 1; const b = 2;
      <<"c","o","n","s","t"," ","u","s","r"," ","="," ","1",";"," ","c","o","n","s","t"," ","b"," ","="," ","2",";">> }

\* Array.prototype.join('\n')
RECURSIVE JoinLines(_)
JoinLines(ls) ==
    IF Len(ls) = 0 THEN << >>
    ELSE IF Len(ls) = 1 THEN ls[1]
    ELSE ls[1] \o << "\n" >> \o JoinLines(Tail(ls))

\* the texts analyzeFileNaming is given: every single line, and every text
\* of 2..MaxLines sample lines
Contents == SingleLines \cup { JoinLines(ls) : ls \in SeqsOf(SampleLines, 2, MaxLines) }

----------------------------------------------------------------------------
(* naming.ts 72-82: analyzeNaming.  One step is one turn of the for-of     *)
(* loop: the await of readFileContent, which the Content Provider resolves *)
(* with a text or rejects, and the synchronous rest of the loop body.      *)

\* the texts the Content Provider resolves with
ProvidedTexts ==
    { \* (the empty text)
      << >>,
      \* const a = 1;\nconst usr = 1; const b = 2;
      <<"c","o","n","s","t"," ","a"," ","="," ","1",";","\n","c","o","n","s","t"," ","u","s","r"," ","="," ","1",";"," ","c","o","n","s","t"," ","b"," ","="," ","2",";">>,
      \* function foo() {}\n\nconst user_name = 1; let x_y = 2;
      <<"f","u","n","c","t","i","o","n"," ","f","o","o","(",")"," ","{","}","\n","\n","c","o","n","s","t"," ","u","s","e","r","_","n","a","m","e"," ","="," ","1",";"," ","l","e","t"," ","x","_","y"," ","="," ","2",";">> }

Idle == "idle"

InitNaming ==
    /\ files \in SeqsOf(Paths, 0, MaxFiles)
    /\ pc = "loop"
    /\ fileIdx = 0
    /\ issues = << >>
    /\ reads = << >>
    /\ result = << >>

IdleNaming == files = << >> /\ pc = Idle /\ fileIdx = 0 /\ issues = << >>
              /\ reads = << >> /\ result = << >>

\* Array.prototype.unshift in the place of push
PushFront(acc, fileIss) == fileIss \o acc

\* naming.ts 78: issues.push(...fileIssues)
Push(acc, fileIss) == acc \o fileIss

\* naming.ts 76-78: the await resolves with text
ReadOk ==
    /\ pc = "loop"
    /\ fileIdx < Len(files)
    /\ \E text \in ProvidedTexts :
          LET f == files[fileIdx + 1]
          IN  /\ issues' = Push(issues, analyzeFileNaming(f, text))
              /\ reads' = Append(reads, [file |-> f, ok |-> TRUE, text |-> text])
    /\ fileIdx' = fileIdx + 1
    /\ UNCHANGED <<files, pc, result>>
    /\ UNCHANGED <<fileVars, detectVars, configVars>>

\* naming.ts 76: the await rejects; nothing catches it, so the promise of
\* analyzeNaming rejects and the issues collected so far are dropped
ReadFail ==
    /\ pc = "loop"
    /\ fileIdx < Len(files)
    /\ reads' = Append(reads, [file |-> files[fileIdx + 1], ok |-> FALSE, text |-> << >>])
    /\ pc' = "rejected"
    /\ UNCHANGED <<files, fileIdx, issues, result>>
    /\ UNCHANGED <<fileVars, detectVars, configVars>>

\* naming.ts 81: return issues
Return ==
    /\ pc = "loop"
    /\ fileIdx = Len(files)
    /\ result' = issues
    /\ pc' = "done"
    /\ UNCHANGED <<files, fileIdx, issues, reads>>
    /\ UNCHANGED <<fileVars, detectVars, configVars>>

----------------------------------------------------------------------------
(* naming.ts 84-271: analyzeFileNaming, one forEach callback per step *)

InitFile ==
    /\ file \in Paths
    /\ content \in Contents
    /\ lines = << >>
    /\ index = 0
    /\ fileIssues = << >>
    /\ fpc = "split"

IdleFile == file = << >> /\ content = << >> /\ lines = << >> /\ index = 0
            /\ fileIssues = << >> /\ fpc = Idle

\* naming.ts 91
SplitLines ==
    /\ fpc = "split"
    /\ lines' = split(content)
    /\ fpc' = "forEach"
    /\ UNCHANGED <<file, content, index, fileIssues>>
    /\ UNCHANGED <<namingVars, detectVars, configVars>>

\* naming.ts 94-268
Callback ==
    /\ fpc = "forEach"
    /\ index < Len(lines)
    /\ fileIssues' = fileIssues \o LineIssues(file, lines[index + 1], index)
    /\ index' = index + 1
    /\ UNCHANGED <<file, content, lines, fpc>>
    /\ UNCHANGED <<namingVars, detectVars, configVars>>

\* naming.ts 270
ReturnIssues ==
    /\ fpc = "forEach"
    /\ index = Len(lines)
    /\ fpc' = "return"
    /\ UNCHANGED <<file, content, lines, index, fileIssues>>
    /\ UNCHANGED <<namingVars, detectVars, configVars>>

----------------------------------------------------------------------------
(* naming.ts 280-294: detectNamingConventions *)

\* naming.ts 286: the estimate of declarations per file
ChecksPerFile == 10

\* naming.ts 288: the threshold 0.3, in tenths
MixedThresholdTenths == 3

\* >= in the place of >
RatioReaches(count, total) ==
    IF total = 0
    THEN count > 0
    ELSE 10 * count >= MixedThresholdTenths * total

\* naming.ts 288: camelCaseCount / totalChecks > 0.3 in IEEE doubles.  A
\* division by zero gives Infinity (count > 0) or NaN (0 / 0), and NaN > 0.3
\* is false.  Otherwise the quotient is the double nearest count/total and
\* the literal is the double nearest 3/10, so for counts of this size the
\* comparison is the comparison of the fractions.
RatioExceeds(count, total) ==
    IF total = 0
    THEN count > 0
    ELSE 10 * count > MixedThresholdTenths * total

\* the scores 0.5 and 0.9 are kept in tenths
detectNamingConventions(fs, allIssues) ==
    LET camelCaseCount ==
            Len(SelectSeq(allIssues, LAMBDA i : i.type = "convention-mix"))
        totalChecks == Len(fs) * ChecksPerFile
    IN  IF RatioExceeds(camelCaseCount, totalChecks)
        THEN [dominantConvention |-> "mixed", conventionScoreTenths |-> 5]
        ELSE [dominantConvention |-> "camelCase", conventionScoreTenths |-> 9]

\* the issues detectNamingConventions is given are drawn from these
SampleIssues ==
    { Issue(<<"a",".","t","s">>, 1, "convention-mix", <<"x","_","y">>, "minor",
            << "Use camelCase '", <<"x","Y">>, "' instead of snake_case in TypeScript/JavaScript" >>),
      Issue(<<"a",".","t","s">>, 2, "abbreviation", <<"u","s","r">>, "info",
            << "Consider using full word instead of abbreviation '", <<"u","s","r">>, "'" >>) }

NoResult == [dominantConvention |-> "none", conventionScoreTenths |-> 0]

InitDetect ==
    /\ dFiles \in SeqsOf(Paths, 0, MaxDetectFiles)
    /\ dIssues \in SeqsOf(SampleIssues, 0, MaxDetectIssues)
    /\ dResult = NoResult
    /\ dAgain = NoResult
    /\ dpc = "call"

IdleDetect == dFiles = << >> /\ dIssues = << >> /\ dResult = NoResult
              /\ dAgain = NoResult /\ dpc = Idle

Detect ==
    /\ dpc = "call"
    /\ dResult' = detectNamingConventions(dFiles, dIssues)
    /\ dpc' = "again"
    /\ UNCHANGED <<dFiles, dIssues, dAgain>>
    /\ UNCHANGED <<namingVars, fileVars, configVars>>

\* a second call with the same arguments
DetectAgain ==
    /\ dpc = "again"
    /\ dAgain' = detectNamingConventions(dFiles, dIssues)
    /\ dpc' = "done"
    /\ UNCHANGED <<dFiles, dIssues, dResult>>
    /\ UNCHANGED <<namingVars, fileVars, configVars>>

----------------------------------------------------------------------------
(* The specifications *)

\* naming.ts 5, 23: the sets are built once, when the module is loaded
InitWhitelists ==
    whitelists = [common |-> COMMON_SHORT_WORDS, accepted |-> ACCEPTABLE_ABBREVIATIONS]

\* analyzeNaming over a list of files
Init == InitNaming /\ IdleFile /\ IdleDetect /\ InitWhitelists
Next == ReadOk \/ ReadFail \/ Return
Spec == Init /\ [][Next]_vars

\* analyzeFileNaming over one file
FileInit == IdleNaming /\ InitFile /\ IdleDetect /\ InitWhitelists
FileNext == SplitLines \/ Callback \/ ReturnIssues
SpecFile == FileInit /\ [][FileNext]_vars

\* detectNamingConventions over a list of files and a list of issues
DetectInit == IdleNaming /\ IdleFile /\ InitDetect /\ InitWhitelists
DetectNext == Detect \/ DetectAgain
SpecDetect == DetectInit /\ [][DetectNext]_vars

----------------------------------------------------------------------------
(* Vocabulary of the properties *)

\* a < b in the order of JavaScript's string comparison
PathLess(a, b) ==
    \E k \in 1..(Len(b)) :
        /\ \A i \in 1..(k - 1) : i <= Len(a) /\ a[i] = b[i]
        /\ \/ k = Len(a) + 1
           \/ k <= Len(a) /\ CodeOf(a[k]) < CodeOf(b[k])

\* sorted by file path, then by line number
SortedByPathThenLine(is) ==
    \A i, j \in 1..Len(is) :
        i < j => \/ PathLess(is[i].file, is[j].file)
                 \/ is[i].file = is[j].file /\ is[i].line <= is[j].line

StrictlyAscending(fs) == \A i, j \in 1..Len(fs) : i < j => PathLess(fs[i], fs[j])

\* the issues of the reads the Content Provider answered, in the order of the reads
RECURSIVE IssuesOfReads(_)
IssuesOfReads(rs) ==
    IF rs = << >>
    THEN << >>
    ELSE (IF Head(rs).ok THEN analyzeFileNaming(Head(rs).file, Head(rs).text) ELSE << >>)
         \o IssuesOfReads(Tail(rs))

NonDecreasingLines(is) == \A i, j \in 1..Len(is) : i < j => is[i].line <= is[j].line

\* the text has this many lines: one more than it has newlines
NumLines(text) == 1 + Cardinality({ p \in 1..Len(text) : text[p] = "\n" })

\* the n-th line of the text: the characters that have n-1 newlines before them
NthLine(text, n) ==
    LET ps == { p \in 1..Len(text) :
                  /\ text[p] # "\n"
                  /\ Cardinality({ q \in 1..(p - 1) : text[q] = "\n" }) = n - 1 }
    IN  IF ps = {}
        THEN << >>
        ELSE LET first == CHOOSE p \in ps : \A o \in ps : p <= o
             IN  [i \in 1..Cardinality(ps) |-> text[first + i - 1]]

\* the rule an issue comes from, read off its type and its suggestion
RuleOf(is) ==
    CASE is.type = "poor-naming"    -> "singleLetter"
      [] is.type = "abbreviation"   -> "abbreviation"
      [] is.type = "convention-mix" -> "snakeCase"
      [] is.type = "unclear" /\ is.suggestion[1] = "Function '" -> "function"
      [] OTHER -> "boolean"

\* the rule of the issue matched the issue's identifier on this line
RuleMatchedOn(is, line) ==
    \E p \in 1..Len(line) :
        LET m == MatchAt(RuleOf(is), line, p)
        IN  m.end # 0 /\ m.cap = is.identifier

IssuesOfType(is, type) == SelectSeq(is, LAMBDA x : x.type = type)

----------------------------------------------------------------------------
(* The properties *)

\* C1: when the Content Provider fails to read one file of the list, the run
\* is not aborted: the unreadable file is skipped, every other file is still
\* read and analyzed, and the issues of the readable files are returned.
C1_UnreadableFileIsSkipped ==
    (\E i \in 1..Len(reads) : ~reads[i].ok) =>
        /\ pc # "rejected"
        /\ pc = "done" => /\ Len(reads) = Len(files)
                          /\ result = IssuesOfReads(reads)

\* C2 as stated: for every list of files, in any order, the returned issue
\* list is sorted by file path and then by line number.
C2_SortedByPathThenLine == pc = "done" => SortedByPathThenLine(result)

\* C2 as amended: for every list of files given in strictly ascending path
\* order, the returned issue list is sorted by file path and then by line
\* number.
C2_SortedWhenPathsAscend ==
    (pc = "done" /\ StrictlyAscending(files)) => SortedByPathThenLine(result)

C2_Witness ==
    /\ pc = "done"
    /\ Len(files) = 3
    /\ StrictlyAscending(files)
    /\ \A i \in 1..3 : \E j \in 1..Len(result) : result[j].file = files[i]
    /\ \E i, j \in 1..Len(result) :
          result[i].file = result[j].file /\ result[i].line < result[j].line

\* C3: the returned issue list is the concatenation of the per-file issue
\* lists in the order the caller gave the files, and within the block of one
\* file the line numbers do not decrease.
C3_ConcatenatedInCallerOrder ==
    pc = "done" =>
        /\ Len(reads) = Len(files)
        /\ \A i \in 1..Len(files) : reads[i].file = files[i]
        /\ result = IssuesOfReads(reads)
        /\ \A i \in 1..Len(reads) :
              NonDecreasingLines(analyzeFileNaming(reads[i].file, reads[i].text))

C3_Witness ==
    /\ pc = "done"
    /\ Len(files) = 2
    /\ PathLess(files[2], files[1])
    /\ \A i \in 1..2 : Len(analyzeFileNaming(reads[i].file, reads[i].text)) >= 2
    /\ result[1].file = files[1]
    /\ result[Len(result)].file = files[2]

\* C4: no abbreviation issue carries an identifier that is a member of the
\* common-word set or of the accepted-abbreviation set, on any line, in any
\* file.
C4_WhitelistedNeverAbbreviation ==
    \A i \in 1..Len(fileIssues) :
        fileIssues[i].type = "abbreviation" =>
            fileIssues[i].identifier \notin COMMON_SHORT_WORDS \cup ACCEPTABLE_ABBREVIATIONS

\* a whitelisted name that the abbreviation regex matched went through the rule
C4_Witness ==
    /\ fpc = "return"
    /\ content \in WhitelistLines
    /\ \E m \in Range(matchAll("abbreviation", content)) : m.cap \in COMMON_SHORT_WORDS
    /\ IssuesOfType(fileIssues, "abbreviation") = << >>

IteratorNames == { <<"i">>, <<"j">>, <<"k">>, <<"l">>, <<"m">>, <<"n">>, <<"x">>, <<"y">>, <<"z">> }

C6_VerbNamedFunctionNeverUnclear ==
    \A i \in 1..Len(fileIssues) :
        (fileIssues[i].type = "unclear" /\ RuleOf(fileIssues[i]) = "function") =>
            ~\E v \in ActionVerbs :
                /\ Len(v) <= Len(fileIssues[i].identifier)
                /\ SubSeq(fileIssues[i].identifier, 1, Len(v)) = v

\* a function whose name is a verb followed by more went through the rule
C6_Witness ==
    /\ fpc = "return"
    /\ \E m \in Range(matchAll("function", content)) :
          \E v \in ActionVerbs : Len(m.cap) > Len(v) /\ SubSeq(m.cap, 1, Len(v)) = v
    /\ fileIssues = << >>

\* C7: every issue carries a line number n with 1 <= n <= number of lines of
\* the text, and its rule matched its identifier on the n-th line of the text.
C7_LineNumberIsPositionOfLine ==
    \A i \in 1..Len(fileIssues) :
        LET n == fileIssues[i].line
        IN  /\ 1 <= n
            /\ n <= NumLines(content)
            /\ RuleMatchedOn(fileIssues[i], NthLine(content, n))

\* issues on the first and on the last of three lines, the middle one empty
C7_Witness ==
    /\ fpc = "return"
    /\ NumLines(content) = 3
    /\ NthLine(content, 2) = << >>
    /\ \E i, j \in 1..Len(fileIssues) : fileIssues[i].line = 1 /\ fileIssues[j].line = 3

ConventionMixCount == Cardinality({ i \in 1..Len(dIssues) : dIssues[i].type = "convention-mix" })

\* C8: for a non-empty file list, detectNamingConventions returns {mixed, 0.5}
\* exactly when the number of convention-mix issues is greater than 3 times
\* the file count, and {camelCase, 0.9} otherwise; it never returns
\* snake_case or PascalCase, and a second call gives the same result.
C8_MixedIffCountAboveThreeTimesFiles ==
    (dpc \in {"again", "done"} /\ Len(dFiles) >= 1) =>
        /\ ConventionMixCount > 3 * Len(dFiles)
              => dResult = [dominantConvention |-> "mixed", conventionScoreTenths |-> 5]
        /\ ConventionMixCount <= 3 * Len(dFiles)
              => dResult = [dominantConvention |-> "camelCase", conventionScoreTenths |-> 9]
        /\ dResult.dominantConvention \notin {"snake_case", "PascalCase"}
        /\ dpc = "done" => dAgain = dResult

\* two files and seven convention-mix issues: one above the threshold
C8_Witness ==
    /\ dpc = "done"
    /\ Len(dFiles) = 2
    /\ ConventionMixCount = 7
    /\ dResult.dominantConvention = "mixed"

\* C9: in a ts, tsx, js or jsx file every declaration of snake-case shape on
\* a line, a second or later one included, yields its own convention-mix
\* issue.
C9_EverySnakeCaseDeclarationFlagged ==
    (fpc = "return" /\ isSourceFile(file)) =>
        \A n \in 1..NumLines(content) :
            Len(SelectSeq(fileIssues, LAMBDA x : x.type = "convention-mix" /\ x.line = n))
                = Len(matchAll("snakeCase", NthLine(content, n)))

\* C10: the camelCase name a convention-mix issue proposes is the identifier
\* with each underscore removed and the character after it upper-cased, so
\* it contains no underscore.
C10_ProposedNameHasNoUnderscore ==
    \A i \in 1..Len(fileIssues) :
        fileIssues[i].type = "convention-mix" => "_" \notin Range(fileIssues[i].suggestion[2])

\* the declared token tok stands on the line after a space and is followed
\* by a character of class C
TokenFollowedBy(line, tok, C) ==
    \E p \in 1..Len(line) :
        /\ StartsAt(line, p, tok)
        /\ At(line, p - 1) \in Space
        /\ At(line, p + Len(tok)) \in C

\* the declared token tok stands on the line after a space and is the whole
\* name: only spaces separate it from the = sign
TokenIsWholeName(line, tok) ==
    \E p \in 1..Len(line) :
        /\ StartsAt(line, p, tok)
        /\ At(line, p - 1) \in Space
        /\ At(line, RunEnd(line, p + Len(tok), Space)) = "="

\* C11 as stated: an abbreviation issue is emitted only for a token that is
\* the whole declared name, never for the prefix of a longer name.
C11_OnlyWholeNamesFlagged ==
    \A i \in 1..Len(fileIssues) :
        fileIssues[i].type = "abbreviation" =>
            TokenIsWholeName(NthLine(content, fileIssues[i].line), fileIssues[i].identifier)

\* C11 as amended: an abbreviation issue is emitted only for a token of 1-3
\* lower-case letters that is the whole declared name or is directly
\* followed by an upper-case letter or an underscore (the prefix of a
\* camel-cased or snake-cased name); none is emitted for a token that a
\* lower-case letter or a digit follows.
C11_WholeNameOrPrefixBeforeCapital ==
    \A i \in 1..Len(fileIssues) :
        fileIssues[i].type = "abbreviation" =>
            LET tok  == fileIssues[i].identifier
                line == NthLine(content, fileIssues[i].line)
            IN  /\ Len(tok) \in 1..3
                /\ Range(tok) \subseteq Lower
                /\ \/ TokenIsWholeName(line, tok)
                   \/ TokenFollowedBy(line, tok, Upper \cup {"_"})

\* the prefix usr of usrName was reported
C11_Witness ==
    /\ fpc = "return"
    /\ \E i \in 1..Len(fileIssues) :
          /\ fileIssues[i].type = "abbreviation"
          /\ TokenFollowedBy(NthLine(content, fileIssues[i].line), fileIssues[i].identifier, Upper)
          /\ ~TokenIsWholeName(NthLine(content, fileIssues[i].line), fileIssues[i].identifier)

\* C12: the common-word set and the accepted-abbreviation set are disjoint,
\* and no call of the naming engine modifies either of them.
C12_WhitelistsDisjointAndReadOnly ==
    /\ whitelists.common \cap whitelists.accepted = {}
    /\ whitelists = [common |-> COMMON_SHORT_WORDS, accepted |-> ACCEPTABLE_ABBREVIATIONS]

\* the abbreviation rule has an exception for this single letter on this line:
\* the letter is in a whitelist set, or is u on a line that mentions
\* user/auth/account
AbbreviationExcused(letter, line) ==
    \/ letter \in COMMON_SHORT_WORDS \cup ACCEPTABLE_ABBREVIATIONS
    \/ letter = <<"u">> /\ isUserContext(line)

\* the line declares the single letter, with the keyword in lower case
DeclaredInLowerCase(line, letter) ==
    \E p \in 1..Len(line) :
        KeywordEnd(line, p, FALSE) # 0 /\ SingleLetterAt(line, p).cap = letter

\* the line has none of the contexts that suppress the short-identifier rule
NoSuppressingContext(line) ==
    ~isInLoopContext(line) /\ ~isI18nContext(line) /\ ~isArrowFunctionParam(line)

\* the letters the claim names for test files
TestOnlyLetters == { <<"a">>, <<"b">>, <<"c">>, <<"e">>, <<"f">>, <<"s">> }

IsAbbreviationOf(is, letter, n) ==
    is.type = "abbreviation" /\ is.identifier = letter /\ is.line = n

====
